---- MODULE Spec2Model ----
(***************************************************************************)
(* PDF annotator backend: the document and annotation route handlers of    *)
(* src/routes/pdfs.js over the PDF and Annotation collections and the      *)
(* upload directory.  Every handler is cut at its awaits: one action is    *)
(* one store operation together with the synchronous JavaScript that runs  *)
(* after it up to the next await.  Requests run in slots and interleave.   *)
(***************************************************************************)
EXTENDS Integers, Sequences, FiniteSets, TLC

\* ---------------------------------------------------------------- bounds
MaxReqs == 3
MaxReplyReqs == 2
MaxPdfs == 1
MaxAnns == 1
MaxTextLen == 2
InitReplyCount == 3
MaxTotal == 21

\* ---------------------------------------------------------------- values
Users == {"u1", "u2", "adm"}
Anon == "anon"
Slots == {1, 2}
PdfIds == 1..MaxPdfs
AnnIds == 1..MaxAnns
Chars == {" ", "a"}

\* req.user.role, set by the protect middleware
Role(u) == IF u = "adm" THEN "admin" ELSE "user"

VARIABLES
  pdfs,       \* PDF collection: id -> [user, isPublic, filePath, accessCount, lastAccessed]
  anns,       \* Annotation collection: id -> [pdf, user, isPrivate, replies]
  blobs,      \* files present in ./uploads/pdfs
  unlinks,    \* fs.unlink calls issued and not yet run by the thread pool
  unlinkErr,  \* files whose fs.unlink called back with an error
  reqs,       \* slot -> the request in flight: handler position and locals
  nreq,       \* requests received so far; also the clock read by new Date()
  deleted,    \* ids of the documents whose DELETE answered 200
  detailOk,   \* document id -> detail reads answered 200
  known,      \* <<viewer, file>>: the file paths a detail response has shown to a viewer
  nextPdf, nextAnn, nextReply, nextFile   \* fresh ObjectId / uuid sources

vars == <<pdfs, anns, blobs, unlinks, unlinkErr, reqs, nreq, deleted, detailOk, known,
          nextPdf, nextAnn, nextReply, nextFile>>

NoBody == [flag |-> "", text |-> <<>>, valid |-> TRUE]

\* the locals and the envelope of a paginated listing
NoList == [page |-> 0, limit |-> 0, total |-> 0, pages |-> 0, count |-> 0, items |-> <<>>]

IdleReq == [kind |-> "none", pc |-> "idle", user |-> Anon, id |-> 0, body |-> NoBody,
            pdf |-> <<>>, ann |-> <<>>, file |-> 0, seen |-> {}, status |-> 0, out |-> {},
            list |-> NoList]

\* no response is being written out
Quiet == \A s \in Slots : reqs[s].pc # "done"

NewReq(kind, u, id, body) ==
  [IdleReq EXCEPT !.kind = kind, !.pc = "run", !.user = u, !.id = id, !.body = body]

\* a request arrives and is given the first free slot, s
Arrive(s) == /\ Quiet
             /\ reqs[s].pc = "idle"
             /\ \A t \in Slots : t < s => reqs[t].pc # "idle"
             /\ nreq < MaxReqs
             /\ nreq' = nreq + 1

\* the handler of slot s is at position pc of the handler of kind
At(s, kind, pc) == Quiet /\ reqs[s].kind = kind /\ reqs[s].pc = pc

\* the handler of slot s goes on as r
Continue(s, r) == reqs' = [reqs EXCEPT ![s] = r]

\* res.status(code).json(out): the handler of slot s, whose locals are r, answers
Respond(s, r, code, out) ==
  reqs' = [reqs EXCEPT ![s] = [r EXCEPT !.pc = "done", !.status = code, !.out = out]]

\* the response is on the wire and the handler has returned
Close(s) ==
  /\ reqs[s].pc = "done"
  /\ reqs' = [reqs EXCEPT ![s] = IdleReq]
  /\ UNCHANGED <<pdfs, anns, blobs, unlinks, unlinkErr, nreq, deleted, detailOk, known,
                 nextPdf, nextAnn, nextReply, nextFile>>

\* Model.findById(id): a sequence holding the document, empty for null
FindPdf(id) == IF id \in DOMAIN pdfs THEN <<pdfs[id]>> ELSE <<>>
FindAnn(id) == IF id \in DOMAIN anns THEN <<anns[id]>> ELSE <<>>

\* Annotation.find({pdf: id}) / the populated 'annotations' virtual
AnnsOf(id) == {a \in DOMAIN anns : anns[a].pdf = id}

\* ------------------------------------------------------------ policies
\* a slip: any signed-in viewer passes
HasAccess_AnySignedIn(pdf, u) == pdf.isPublic \/ u # Anon

\* pdf.isPublic || (req.user && pdf.user.toString() === req.user.id)
HasAccess(pdf, u) == pdf.isPublic \/ (u # Anon /\ pdf.user = u)

\* a slip: the ownership test is dropped
CanMutatePdf_NoOwnerTest(pdf, u) == ~(Role(u) # "admin" /\ Role(u) # "user")

\* the guard of PUT and DELETE, negated:
\* pdf.user.toString() !== req.user.id && req.user.role !== 'admin'
CanMutatePdf(pdf, u) == ~(pdf.user # u /\ Role(u) # "admin")

\* isPublic || 'true', then the schema's cast of the multipart string to Boolean
UploadIsPublic(field) == LET v == IF field = "" THEN "true" ELSE field
                         IN  v = "true"

\* ------------------------------------------------------------- thread pool
\* a queued fs.unlink runs: the file is removed
FsUnlinkDone(f) ==
  /\ Quiet
  /\ f \in unlinks
  /\ f \in blobs
  /\ unlinks' = unlinks \ {f}
  /\ blobs' = blobs \ {f}
  /\ UNCHANGED <<pdfs, anns, unlinkErr, reqs, nreq, deleted, detailOk, known,
                 nextPdf, nextAnn, nextReply, nextFile>>

\* a queued fs.unlink fails and calls back with err, which is logged
FsUnlinkFail(f) ==
  /\ Quiet
  /\ f \in unlinks
  /\ unlinks' = unlinks \ {f}
  /\ unlinkErr' = unlinkErr \cup {f}
  /\ UNCHANGED <<pdfs, anns, blobs, reqs, nreq, deleted, detailOk, known,
                 nextPdf, nextAnn, nextReply, nextFile>>

\* ------------------------------------------------- POST /api/pdfs/upload
\* multer's fileFilter
FileFilter(mime) == mime = "application/pdf"

\* upload.single('pdf'): fileFilter, then diskStorage writes the file under a uuid
UploadStart(s, u, mime, isPublic, valid) ==
  /\ Arrive(s)
  /\ nextPdf <= MaxPdfs
  /\ LET r == NewReq("upload", u, 0, NoBody)
     IN  IF mime = ""
         THEN \* no file part: req.file is undefined
              /\ Respond(s, r, 400, {})
              /\ UNCHANGED <<blobs, nextFile>>
         ELSE IF ~FileFilter(mime)
         THEN \* rejected before storage is touched; handleMulterError answers
              /\ Respond(s, r, 400, {})
              /\ UNCHANGED <<blobs, nextFile>>
         ELSE /\ Continue(s, [r EXCEPT !.pc = "create", !.file = nextFile,
                                       !.body = [NoBody EXCEPT !.flag = isPublic,
                                                               !.valid = valid]])
              /\ blobs' = blobs \cup {nextFile}
              /\ nextFile' = nextFile + 1
  /\ UNCHANGED <<pdfs, anns, unlinks, unlinkErr, deleted, detailOk, known, nextPdf, nextAnn, nextReply>>

\* await PDF.create(...): inserted, or rejected by the schema's validators
UploadCreate(s) ==
  LET r == reqs[s] IN
  /\ At(s, "upload", "create")
  /\ IF r.body.valid
     THEN /\ nextPdf <= MaxPdfs
          /\ pdfs' = [d \in DOMAIN pdfs \cup {nextPdf} |->
                        IF d = nextPdf
                        THEN [user |-> r.user, isPublic |-> UploadIsPublic(r.body.flag),
                              filePath |-> r.file, accessCount |-> 0, lastAccessed |-> nreq]
                        ELSE pdfs[d]]
          /\ nextPdf' = nextPdf + 1
          /\ Respond(s, [r EXCEPT !.id = nextPdf], 201, {})
          /\ UNCHANGED unlinks
     ELSE \* catch: fs.unlink(req.file.path, cb) is issued, not awaited
          /\ unlinks' = unlinks \cup {r.file}
          /\ Continue(s, [r EXCEPT !.pc = "next"])
          /\ UNCHANGED <<pdfs, nextPdf>>
  /\ UNCHANGED <<anns, blobs, unlinkErr, nreq, deleted, detailOk, known, nextAnn, nextReply, nextFile>>

\* next(error): the error handler answers
UploadNext(s) ==
  LET r == reqs[s] IN
  /\ At(s, "upload", "next")
  /\ Respond(s, r, 500, {})
  /\ UNCHANGED <<pdfs, anns, blobs, unlinks, unlinkErr, nreq, deleted, detailOk, known,
                 nextPdf, nextAnn, nextReply, nextFile>>

\* ------------------------------------------------------ GET /api/pdfs/:id
\* the annotations the response carries
DetailAnnotations(pdf, u, loaded) ==
  IF u = Anon \/ pdf.user # u
  THEN {a \in loaded : ~a.isPrivate}
  ELSE loaded

\* findById + populate, the 404 and 403 answers, the local increment
GetPdfLoad(s, u, id) ==
  /\ Arrive(s)
  /\ LET found == FindPdf(id)
         r == [NewReq("detail", u, id, NoBody) EXCEPT !.pdf = found]
     IN  IF found = <<>>
         THEN Respond(s, r, 404, {})
         ELSE IF ~HasAccess(found[1], u)
         THEN Respond(s, r, 403, {})
         ELSE Continue(s, [r EXCEPT
                 !.pc = "save",
                 !.seen = {[id |-> a, isPrivate |-> anns[a].isPrivate] : a \in AnnsOf(id)},
                 !.pdf = <<[found[1] EXCEPT !.accessCount = @ + 1,
                                            !.lastAccessed = nreq']>>])
  /\ UNCHANGED <<pdfs, anns, blobs, unlinks, unlinkErr, deleted, detailOk, known,
                 nextPdf, nextAnn, nextReply, nextFile>>

\* await pdf.save(): $set of the two modified paths; then the response
GetPdfSave(s) ==
  LET r == reqs[s] IN
  /\ At(s, "detail", "save")
  /\ IF r.id \in DOMAIN pdfs
     THEN /\ pdfs' = [pdfs EXCEPT ![r.id].accessCount = r.pdf[1].accessCount,
                                  ![r.id].lastAccessed = r.pdf[1].lastAccessed]
          /\ detailOk' = [detailOk EXCEPT ![r.id] = @ + 1]
          \* the response carries filePath: pdf.filePath
          /\ known' = known \cup {<<r.user, r.pdf[1].filePath>>}
          /\ Respond(s, r, 200, {a.id : a \in DetailAnnotations(r.pdf[1], r.user, r.seen)})
     ELSE \* the document is gone: save rejects with DocumentNotFoundError
          /\ Respond(s, r, 500, {})
          /\ UNCHANGED <<pdfs, detailOk, known>>
  /\ UNCHANGED <<anns, blobs, unlinks, unlinkErr, nreq, deleted,
                 nextPdf, nextAnn, nextReply, nextFile>>

\* ------------------------------------------------- GET /api/pdfs/:id/file
GetFile(s, u, id) ==
  /\ Arrive(s)
  /\ LET found == FindPdf(id)
         r == [NewReq("file", u, id, NoBody) EXCEPT !.pdf = found]
     IN  IF found = <<>>
         THEN Respond(s, r, 404, {})
         ELSE IF ~HasAccess(found[1], u)
         THEN Respond(s, r, 403, {})
         ELSE IF found[1].filePath \notin blobs
         THEN Respond(s, r, 404, {})
         ELSE Respond(s, [r EXCEPT !.file = found[1].filePath], 200, {})
  /\ UNCHANGED <<pdfs, anns, blobs, unlinks, unlinkErr, deleted, detailOk, known,
                 nextPdf, nextAnn, nextReply, nextFile>>

\* ------------------------------------------------------ PUT /api/pdfs/:id
\* typeof isPublic === 'boolean': the JSON body's field, "" when absent
PutPdfLoad(s, u, id, isPublic) ==
  /\ Arrive(s)
  /\ LET found == FindPdf(id)
         r == [NewReq("putPdf", u, id, [NoBody EXCEPT !.flag = isPublic]) EXCEPT !.pdf = found]
     IN  IF found = <<>>
         THEN Respond(s, r, 404, {})
         ELSE IF ~CanMutatePdf(found[1], u)
         THEN Respond(s, r, 403, {})
         ELSE Continue(s, [r EXCEPT !.pc = "update"])
  /\ UNCHANGED <<pdfs, anns, blobs, unlinks, unlinkErr, deleted, detailOk, known,
                 nextPdf, nextAnn, nextReply, nextFile>>

\* await PDF.findByIdAndUpdate(id, updateFields, {new: true})
PutPdfUpdate(s) ==
  LET r == reqs[s] IN
  /\ At(s, "putPdf", "update")
  /\ IF r.id \in DOMAIN pdfs
     THEN /\ pdfs' = IF r.body.flag = ""
                     THEN pdfs
                     ELSE [pdfs EXCEPT ![r.id].isPublic = (r.body.flag = "true")]
          /\ Respond(s, r, 200, {})
     ELSE \* null comes back and pdf._id throws
          /\ Respond(s, r, 500, {})
          /\ UNCHANGED pdfs
  /\ UNCHANGED <<anns, blobs, unlinks, unlinkErr, nreq, deleted, detailOk, known,
                 nextPdf, nextAnn, nextReply, nextFile>>

\* --------------------------------------------------- DELETE /api/pdfs/:id
DeletePdfLoad(s, u, id) ==
  /\ Arrive(s)
  /\ LET found == FindPdf(id)
         r == [NewReq("deletePdf", u, id, NoBody) EXCEPT !.pdf = found]
     IN  IF found = <<>>
         THEN Respond(s, r, 404, {})
         ELSE IF ~CanMutatePdf(found[1], u)
         THEN Respond(s, r, 403, {})
         ELSE Continue(s, [r EXCEPT !.pc = "annotations"])
  /\ UNCHANGED <<pdfs, anns, blobs, unlinks, unlinkErr, deleted, detailOk, known,
                 nextPdf, nextAnn, nextReply, nextFile>>

\* await Annotation.deleteMany({pdf}); then existsSync and the unawaited fs.unlink
DeletePdfAnnotations(s) ==
  LET r == reqs[s] IN
  /\ At(s, "deletePdf", "annotations")
  /\ anns' = [a \in DOMAIN anns \ AnnsOf(r.id) |-> anns[a]]
  /\ unlinks' = IF r.pdf[1].filePath \in blobs
                THEN unlinks \cup {r.pdf[1].filePath}
                ELSE unlinks
  /\ Continue(s, [r EXCEPT !.pc = "record"])
  /\ UNCHANGED <<pdfs, blobs, unlinkErr, nreq, deleted, detailOk, known,
                 nextPdf, nextAnn, nextReply, nextFile>>

\* a slip: a failed unlink of the file is thrown into the handler
DeletePdfRecord_UnlinkFatal(s) ==
  LET r == reqs[s] IN
  /\ At(s, "deletePdf", "record")
  /\ IF r.pdf[1].filePath \in unlinkErr
     THEN /\ Respond(s, r, 500, {})
          /\ UNCHANGED <<pdfs, deleted>>
     ELSE /\ pdfs' = [d \in DOMAIN pdfs \ {r.id} |-> pdfs[d]]
          /\ deleted' = deleted \cup {r.id}
          /\ Respond(s, r, 200, {})
  /\ UNCHANGED <<anns, blobs, unlinks, unlinkErr, nreq, detailOk, known,
                 nextPdf, nextAnn, nextReply, nextFile>>

\* await PDF.findByIdAndDelete(id); then the 200
DeletePdfRecord(s) ==
  LET r == reqs[s] IN
  /\ At(s, "deletePdf", "record")
  /\ pdfs' = [d \in DOMAIN pdfs \ {r.id} |-> pdfs[d]]
  /\ deleted' = deleted \cup {r.id}
  /\ Respond(s, r, 200, {})
  /\ UNCHANGED <<anns, blobs, unlinks, unlinkErr, nreq, detailOk, known,
                 nextPdf, nextAnn, nextReply, nextFile>>

\* ---------------------------------------------- POST /api/annotations
\* pdf.user.toString() === req.user.id || pdf.isPublic
CanAnnotate(pdf, u) == pdf.user = u \/ pdf.isPublic

\* the required-field check, findById(pdfId), the 404 and 403 answers
CreateAnnotationLoad(s, u, id, isPrivate, valid) ==
  /\ Arrive(s)
  /\ nextAnn <= MaxAnns
  /\ LET r0 == NewReq("createAnn", u, id, [NoBody EXCEPT !.flag = isPrivate, !.valid = valid])
         found == FindPdf(id)
         r == [r0 EXCEPT !.pdf = found]
     IN  IF ~valid
         THEN Respond(s, r0, 400, {})
         ELSE IF found = <<>>
         THEN Respond(s, r, 404, {})
         ELSE IF ~CanAnnotate(found[1], u)
         THEN Respond(s, r, 403, {})
         ELSE Continue(s, [r EXCEPT !.pc = "insert"])
  /\ UNCHANGED <<pdfs, anns, blobs, unlinks, unlinkErr, deleted, detailOk, known,
                 nextPdf, nextAnn, nextReply, nextFile>>

\* await Annotation.create(...); the populated re-read; the 201
CreateAnnotationInsert(s) ==
  LET r == reqs[s] IN
  /\ At(s, "createAnn", "insert")
  /\ nextAnn <= MaxAnns
  /\ anns' = [a \in DOMAIN anns \cup {nextAnn} |->
                IF a = nextAnn
                THEN [pdf |-> r.id, user |-> r.user,
                      isPrivate |-> (r.body.flag = "true"), replies |-> <<>>]
                ELSE anns[a]]
  /\ nextAnn' = nextAnn + 1
  /\ Respond(s, r, 201, {nextAnn})
  /\ UNCHANGED <<pdfs, blobs, unlinks, unlinkErr, nreq, deleted, detailOk, known,
                 nextPdf, nextReply, nextFile>>

\* ------------------------------------- GET /api/annotations/pdf/:pdfId
\* pdf.user.toString() === req.user.id || pdf.isPublic
CanListAnnotations(pdf, u) == pdf.user = u \/ pdf.isPublic

ListAnnotationsLoad(s, u, id) ==
  /\ Arrive(s)
  /\ LET found == FindPdf(id)
         r == [NewReq("listAnn", u, id, NoBody) EXCEPT !.pdf = found]
     IN  IF found = <<>>
         THEN Respond(s, r, 404, {})
         ELSE IF ~CanListAnnotations(found[1], u)
         THEN Respond(s, r, 403, {})
         ELSE Continue(s, [r EXCEPT !.pc = "find"])
  /\ UNCHANGED <<pdfs, anns, blobs, unlinks, unlinkErr, deleted, detailOk, known,
                 nextPdf, nextAnn, nextReply, nextFile>>

\* a slip: the author's own private annotations are let through
ListQuery_AuthorSeesOwn(pdf, u, id) ==
  {a \in AnnsOf(id) : (pdf.user # u) => (anns[a].isPrivate = FALSE \/ anns[a].user = u)}

\* the query: {pdf: pdfId}, with isPrivate: false unless the viewer owns the PDF
ListQuery(pdf, u, id) ==
  {a \in AnnsOf(id) : (pdf.user # u) => (anns[a].isPrivate = FALSE)}

\* await Annotation.find(query); then the 200
ListAnnotationsFind(s) ==
  LET r == reqs[s] IN
  /\ At(s, "listAnn", "find")
  /\ Respond(s, [r EXCEPT !.seen = {[id |-> a, isPrivate |-> anns[a].isPrivate] :
                                     a \in AnnsOf(r.id)}],
             200, ListQuery(r.pdf[1], r.user, r.id))
  /\ UNCHANGED <<pdfs, anns, blobs, unlinks, unlinkErr, nreq, deleted, detailOk, known,
                 nextPdf, nextAnn, nextReply, nextFile>>

\* ------------------------------------------------ PUT /api/annotations/:id
\* a slip: the guard of DELETE, which lets an admin through
CanUpdateAnnotation_AdminToo(ann, u) == ~(ann.user # u /\ Role(u) # "admin")

\* the guard of PUT, negated: annotation.user.toString() !== req.user.id
CanUpdateAnnotation(ann, u) == ~(ann.user # u)

PutAnnotationLoad(s, u, id, isPrivate) ==
  /\ Arrive(s)
  /\ LET found == FindAnn(id)
         r == [NewReq("putAnn", u, id, [NoBody EXCEPT !.flag = isPrivate]) EXCEPT !.ann = found]
     IN  IF found = <<>>
         THEN Respond(s, r, 404, {})
         ELSE IF ~CanUpdateAnnotation(found[1], u)
         THEN Respond(s, r, 403, {})
         ELSE Continue(s, [r EXCEPT !.pc = "update"])
  /\ UNCHANGED <<pdfs, anns, blobs, unlinks, unlinkErr, deleted, detailOk, known,
                 nextPdf, nextAnn, nextReply, nextFile>>

\* await Annotation.findByIdAndUpdate(id, updateFields, {new: true}); then the 200
PutAnnotationUpdate(s) ==
  LET r == reqs[s] IN
  /\ At(s, "putAnn", "update")
  /\ anns' = IF r.id \in DOMAIN anns /\ r.body.flag # ""
             THEN [anns EXCEPT ![r.id].isPrivate = (r.body.flag = "true")]
             ELSE anns
  /\ Respond(s, r, 200, {})
  /\ UNCHANGED <<pdfs, blobs, unlinks, unlinkErr, nreq, deleted, detailOk, known,
                 nextPdf, nextAnn, nextReply, nextFile>>

\* --------------------------------------------- DELETE /api/annotations/:id
\* the guard of DELETE, negated:
\* annotation.user.toString() !== req.user.id && req.user.role !== 'admin'
CanDeleteAnnotation(ann, u) == ~(ann.user # u /\ Role(u) # "admin")

DeleteAnnotationLoad(s, u, id) ==
  /\ Arrive(s)
  /\ LET found == FindAnn(id)
         r == [NewReq("deleteAnn", u, id, NoBody) EXCEPT !.ann = found]
     IN  IF found = <<>>
         THEN Respond(s, r, 404, {})
         ELSE IF ~CanDeleteAnnotation(found[1], u)
         THEN Respond(s, r, 403, {})
         ELSE Continue(s, [r EXCEPT !.pc = "delete"])
  /\ UNCHANGED <<pdfs, anns, blobs, unlinks, unlinkErr, deleted, detailOk, known,
                 nextPdf, nextAnn, nextReply, nextFile>>

\* await Annotation.findByIdAndDelete(id); then the 200
DeleteAnnotationRecord(s) ==
  LET r == reqs[s] IN
  /\ At(s, "deleteAnn", "delete")
  /\ anns' = [a \in DOMAIN anns \ {r.id} |-> anns[a]]
  /\ Respond(s, r, 200, {})
  /\ UNCHANGED <<pdfs, blobs, unlinks, unlinkErr, nreq, deleted, detailOk, known,
                 nextPdf, nextAnn, nextReply, nextFile>>

\* ------------------------------------- POST /api/annotations/:id/replies
\* String.prototype.trim over the model's alphabet
RECURSIVE TrimLeft(_)
TrimLeft(t) == IF t # <<>> /\ Head(t) = " " THEN TrimLeft(Tail(t)) ELSE t

RECURSIVE TrimRight(_)
TrimRight(t) == IF t # <<>> /\ t[Len(t)] = " " THEN TrimRight(SubSeq(t, 1, Len(t) - 1)) ELSE t

Trim(t) == TrimRight(TrimLeft(t))

\* !text || text.trim().length === 0
TextMissing(text) == text = <<>> \/ Len(Trim(text)) = 0

\* the text check and Annotation.findById
AddReplyLoad(s, u, id, text) ==
  /\ Arrive(s)
  /\ LET r0 == NewReq("addReply", u, id, [NoBody EXCEPT !.text = text])
         found == FindAnn(id)
     IN  IF TextMissing(text)
         THEN Respond(s, r0, 400, {})
         ELSE IF found = <<>>
         THEN Respond(s, r0, 404, {})
         ELSE Continue(s, [r0 EXCEPT !.pc = "pdf", !.ann = found])
  /\ UNCHANGED <<pdfs, anns, blobs, unlinks, unlinkErr, deleted, detailOk, known,
                 nextPdf, nextAnn, nextReply, nextFile>>

\* a slip: the annotation's privacy is not looked at
ReplyRefused_AccessOnly(pdf, ann, u) == ~(pdf.user = u \/ pdf.isPublic)

\* !hasAccess || annotation.isPrivate
ReplyRefused(pdf, ann, u) == ~(pdf.user = u \/ pdf.isPublic) \/ ann.isPrivate

\* await PDF.findById(annotation.pdf); the 403; replies.push on the loaded document
AddReplyPdf(s) ==
  LET r == reqs[s]
      found == FindPdf(r.ann[1].pdf)
  IN
  /\ At(s, "addReply", "pdf")
  /\ IF found = <<>>
     THEN \* pdf is null and pdf.user throws
          Respond(s, r, 500, {})
     ELSE IF ReplyRefused(found[1], r.ann[1], r.user)
     THEN Respond(s, [r EXCEPT !.pdf = found], 403, {})
     ELSE Continue(s, [r EXCEPT !.pc = "save", !.pdf = found])
  /\ UNCHANGED <<pdfs, anns, blobs, unlinks, unlinkErr, nreq, deleted, detailOk, known,
                 nextPdf, nextAnn, nextReply, nextFile>>

\* the subdocument pushed: {user: req.user.id, text: text.trim()}, with its own _id
NewReply(id, u, text) == [id |-> id, user |-> u, text |-> Trim(text)]

\* await annotation.save(): $push of the new reply
AddReplySave(s) ==
  LET r == reqs[s] IN
  /\ At(s, "addReply", "save")
  /\ IF r.id \in DOMAIN anns
     THEN /\ anns' = [anns EXCEPT ![r.id].replies =
                                   Append(@, NewReply(nextReply, r.user, r.body.text))]
          /\ nextReply' = nextReply + 1
          /\ Continue(s, [r EXCEPT !.pc = "reread", !.file = nextReply])
     ELSE \* the annotation is gone: save rejects with DocumentNotFoundError
          /\ Respond(s, r, 500, {})
          /\ UNCHANGED <<anns, nextReply>>
  /\ UNCHANGED <<pdfs, blobs, unlinks, unlinkErr, nreq, deleted, detailOk, known,
                 nextPdf, nextAnn, nextFile>>

\* await Annotation.findById(annotation._id) with its populates; the 201 carries
\* the annotation as it is read now (null when it is gone)
AddReplyReread(s) ==
  LET r == reqs[s]
      found == FindAnn(r.id)
  IN
  /\ At(s, "addReply", "reread")
  /\ Respond(s, [r EXCEPT !.seen = IF found = <<>> THEN {}
                                   ELSE {[id |-> r.id, isPrivate |-> found[1].isPrivate]}],
             201, IF found = <<>> THEN {} ELSE {r.id})
  /\ UNCHANGED <<pdfs, anns, blobs, unlinks, unlinkErr, nreq, deleted, detailOk, known,
                 nextPdf, nextAnn, nextReply, nextFile>>

\* ------------------------- DELETE /api/annotations/:id/replies/:replyId
\* annotation.replies.id(replyId): the subdocument with that _id, empty for null
ReplyById(ann, replyId) ==
  LET hits == SelectSeq(ann.replies, LAMBDA x : x.id = replyId)
  IN  IF hits = <<>> THEN <<>> ELSE <<hits[1]>>

\* a slip: the reply's own author is not let through
CanDeleteReply_NotReplyAuthor(reply, ann, u) ==
  ~(ann.user # u /\ Role(u) # "admin")

\* the guard, negated: reply.user.toString() !== req.user.id &&
\* annotation.user.toString() !== req.user.id && req.user.role !== 'admin'
CanDeleteReply(reply, ann, u) ==
  ~(reply.user # u /\ ann.user # u /\ Role(u) # "admin")

\* Annotation.findById, replies.id(replyId), the two 404s and the 403
DeleteReplyLoad(s, u, id, replyId) ==
  /\ Arrive(s)
  /\ LET found == FindAnn(id)
         r == [NewReq("deleteReply", u, id, NoBody) EXCEPT !.ann = found, !.file = replyId]
     IN  IF found = <<>>
         THEN Respond(s, r, 404, {})
         ELSE IF ReplyById(found[1], replyId) = <<>>
         THEN Respond(s, r, 404, {})
         ELSE IF ~CanDeleteReply(ReplyById(found[1], replyId)[1], found[1], u)
         THEN Respond(s, r, 403, {})
         ELSE Continue(s, [r EXCEPT !.pc = "save"])
  /\ UNCHANGED <<pdfs, anns, blobs, unlinks, unlinkErr, deleted, detailOk, known,
                 nextPdf, nextAnn, nextReply, nextFile>>

\* reply.remove(); await annotation.save(): $pull of the reply by its _id; the 200
DeleteReplySave(s) ==
  LET r == reqs[s] IN
  /\ At(s, "deleteReply", "save")
  /\ IF r.id \in DOMAIN anns
     THEN /\ anns' = [anns EXCEPT ![r.id].replies = SelectSeq(@, LAMBDA x : x.id # r.file)]
          /\ Respond(s, r, 200, {})
     ELSE \* the annotation is gone: save rejects with DocumentNotFoundError
          /\ Respond(s, r, 500, {})
          /\ UNCHANGED anns
  /\ UNCHANGED <<pdfs, blobs, unlinks, unlinkErr, nreq, deleted, detailOk, known,
                 nextPdf, nextAnn, nextReply, nextFile>>

\* --------------------------------- GET /api/pdfs, /api/pdfs/public, /api/annotations/my
\* the defaults of page and limit
DefaultPage == 1
DefaultLimit == 10
DefaultMyLimit == 20

DigitValue(c) ==
  CASE c = "0" -> 0 [] c = "1" -> 1 [] c = "2" -> 2 [] c = "3" -> 3 [] c = "4" -> 4
    [] c = "5" -> 5 [] c = "6" -> 6 [] c = "7" -> 7 [] c = "8" -> 8 [] c = "9" -> 9
    [] OTHER -> -1

\* the longest prefix of str made of digits
RECURSIVE DigitPrefix(_)
DigitPrefix(str) ==
  IF str = <<>> \/ DigitValue(Head(str)) < 0 THEN <<>>
  ELSE <<Head(str)>> \o DigitPrefix(Tail(str))

RECURSIVE DigitsValue(_)
DigitsValue(ds) ==
  IF ds = <<>> THEN 0
  ELSE 10 * DigitsValue(SubSeq(ds, 1, Len(ds) - 1)) + DigitValue(ds[Len(ds)])

\* parseInt(str) of an unsigned query value: the number its digit prefix spells,
\* empty for NaN (no digit prefix, or the parameter absent)
ParseInt(str) == IF DigitPrefix(str) = <<>> THEN <<>> ELSE <<DigitsValue(DigitPrefix(str))>>

\* parseInt(...) || d: NaN and 0 are falsy
OrDefault(parsed, d) == IF parsed = <<>> \/ parsed[1] = 0 THEN d ELSE parsed[1]

\* a slip: the quotient is cut, not rounded up
MathCeilDiv_Floor(total, limit) == total \div limit

\* Math.ceil(total / limit), limit positive
MathCeilDiv(total, limit) == -((-total) \div limit)

\* .sort({createdAt: -1}): the matching ids, newest first
NewestFirst(ids) ==
  [i \in 1..Cardinality(ids) |-> CHOOSE x \in ids : Cardinality({y \in ids : y > x}) = i - 1]

\* .skip(skip).limit(limit) on the sorted cursor
SkipLimit(sorted, skip, limit) ==
  IF skip >= Len(sorted) THEN <<>>
  ELSE SubSeq(sorted, skip + 1, IF skip + limit < Len(sorted) THEN skip + limit
                                                              ELSE Len(sorted))

\* the ids each listing's query matches
OwnedQuery(u) == {d \in DOMAIN pdfs : pdfs[d].user = u}
PublicQuery == {d \in DOMAIN pdfs : pdfs[d].isPublic}
MyQuery(u) == {a \in DOMAIN anns : anns[a].user = u}

\* page, limit and skip; then await countDocuments(query)
ListCount(s, kind, u, page, limit, defaultLimit, matching) ==
  /\ Arrive(s)
  /\ Continue(s, [NewReq(kind, u, 0, NoBody) EXCEPT
                    !.pc = "find",
                    !.list = [NoList EXCEPT !.page = OrDefault(ParseInt(page), DefaultPage),
                                            !.limit = OrDefault(ParseInt(limit), defaultLimit),
                                            !.total = Cardinality(matching)]])
  /\ UNCHANGED <<pdfs, anns, blobs, unlinks, unlinkErr, deleted, detailOk, known,
                 nextPdf, nextAnn, nextReply, nextFile>>

\* await find(query).sort().skip().limit(); then the envelope
ListFind(s, kind, matching) ==
  LET r == reqs[s]
      skip == (r.list.page - 1) * r.list.limit
      items == SkipLimit(NewestFirst(matching), skip, r.list.limit)
  IN
  /\ At(s, kind, "find")
  /\ Respond(s, [r EXCEPT !.list.items = items,
                          !.list.count = Len(items),
                          !.list.pages = MathCeilDiv(r.list.total, r.list.limit)], 200, {})
  /\ UNCHANGED <<pdfs, anns, blobs, unlinks, unlinkErr, nreq, deleted, detailOk, known,
                 nextPdf, nextAnn, nextReply, nextFile>>

\* GET /api/pdfs
ListPdfsCount(s, u, page, limit) ==
  ListCount(s, "listPdfs", u, page, limit, DefaultLimit, OwnedQuery(u))
ListPdfsFind(s) == ListFind(s, "listPdfs", OwnedQuery(reqs[s].user))

\* GET /api/pdfs/public
ListPublicCount(s, u, page, limit) ==
  ListCount(s, "listPublic", u, page, limit, DefaultLimit, PublicQuery)
ListPublicFind(s) == ListFind(s, "listPublic", PublicQuery)

\* GET /api/annotations/my
ListMyCount(s, u, page, limit) ==
  ListCount(s, "listMy", u, page, limit, DefaultMyLimit, MyQuery(u))
ListMyFind(s) == ListFind(s, "listMy", MyQuery(reqs[s].user))

\* ------------------------------------------------------------ GET /uploads/...
\* app.use('/uploads', express.static(path.join(__dirname, 'uploads'))): no identity is
\* looked at.  Uploads are written under ./uploads/pdfs of the working directory, so
\* the mount serves them when the process runs in the server's own directory
\* (mounted); otherwise, or when the file is gone, the request falls to the 404 handler
StaticGet(s, u, f, mounted) ==
  /\ Arrive(s)
  /\ LET r == [NewReq("static", u, 0, NoBody) EXCEPT !.file = f]
     IN  IF mounted /\ f \in blobs
         THEN Respond(s, r, 200, {})
         ELSE Respond(s, r, 404, {})
  /\ UNCHANGED <<pdfs, anns, blobs, unlinks, unlinkErr, deleted, detailOk, known,
                 nextPdf, nextAnn, nextReply, nextFile>>

\* ------------------------------------------------------------- the server
\* the process stops: the handlers in flight and the queued unlinks are lost
Crash ==
  /\ Quiet
  /\ \E s \in Slots : reqs[s].pc # "idle"
  /\ reqs' = [s \in Slots |-> IdleReq]
  /\ unlinks' = {}
  /\ UNCHANGED <<pdfs, anns, blobs, unlinkErr, nreq, deleted, detailOk, known,
                 nextPdf, nextAnn, nextReply, nextFile>>

Init ==
  /\ pdfs = <<>>
  /\ anns = <<>>
  /\ blobs = {}
  /\ unlinks = {}
  /\ unlinkErr = {}
  /\ reqs = [s \in Slots |-> IdleReq]
  /\ nreq = 0
  /\ deleted = {}
  /\ known = {}
  /\ detailOk = [d \in PdfIds |-> 0]
  /\ nextPdf = 1 /\ nextAnn = 1 /\ nextReply = 1 /\ nextFile = 1

\* the store after u1 has uploaded one PDF, public or not
InitAnn ==
  /\ \E pub \in BOOLEAN :
        pdfs = [d \in {1} |-> [user |-> "u1", isPublic |-> pub, filePath |-> 1,
                               accessCount |-> 0, lastAccessed |-> 0]]
  /\ anns = <<>>
  /\ blobs = {1}
  /\ unlinks = {}
  /\ unlinkErr = {}
  /\ reqs = [s \in Slots |-> IdleReq]
  /\ nreq = 0
  /\ deleted = {}
  /\ known = {}
  /\ detailOk = [d \in PdfIds |-> 0]
  /\ nextPdf = 2 /\ nextAnn = 1 /\ nextReply = 1 /\ nextFile = 2

\* the store after u1 has uploaded one PDF and u1 or u2 has annotated it
InitReply ==
  /\ \E pub \in BOOLEAN :
        pdfs = [d \in {1} |-> [user |-> "u1", isPublic |-> pub, filePath |-> 1,
                               accessCount |-> 0, lastAccessed |-> 0]]
  /\ \E u \in {"u1", "u2"}, priv \in BOOLEAN :
        anns = [a \in {1} |-> [pdf |-> 1, user |-> u, isPrivate |-> priv, replies |-> <<>>]]
  /\ blobs = {1}
  /\ unlinks = {}
  /\ unlinkErr = {}
  /\ reqs = [s \in Slots |-> IdleReq]
  /\ nreq = 0
  /\ deleted = {}
  /\ known = {}
  /\ detailOk = [d \in PdfIds |-> 0]
  /\ nextPdf = 2 /\ nextAnn = 2 /\ nextReply = 1 /\ nextFile = 2

\* the store after u1 has uploaded a public PDF, u1 or u2 has annotated it, and
\* InitReplyCount replies by u1 and u2 have been added to the annotation
InitReplies ==
  /\ pdfs = [d \in {1} |-> [user |-> "u1", isPublic |-> TRUE, filePath |-> 1,
                            accessCount |-> 0, lastAccessed |-> 0]]
  /\ \E u \in {"u1", "u2"}, who \in [1..InitReplyCount -> {"u1", "u2"}] :
        anns = [a \in {1} |->
                 [pdf |-> 1, user |-> u, isPrivate |-> FALSE,
                  replies |-> [i \in 1..InitReplyCount |->
                                 [id |-> i, user |-> who[i], text |-> <<"a">>]]]]
  /\ blobs = {1}
  /\ unlinks = {}
  /\ unlinkErr = {}
  /\ reqs = [s \in Slots |-> IdleReq]
  /\ nreq = 0
  /\ deleted = {}
  /\ known = {}
  /\ detailOk = [d \in PdfIds |-> 0]
  /\ nextPdf = 2 /\ nextAnn = 2 /\ nextReply = InitReplyCount + 1 /\ nextFile = 2

\* the store after u1 has uploaded n public PDFs and annotated each of them once
InitPage ==
  \E n \in 0..MaxTotal :
    /\ pdfs = [d \in 1..n |-> [user |-> "u1", isPublic |-> TRUE, filePath |-> d,
                               accessCount |-> 0, lastAccessed |-> 0]]
    /\ anns = [a \in 1..n |-> [pdf |-> a, user |-> "u1", isPrivate |-> FALSE,
                               replies |-> <<>>]]
    /\ blobs = 1..n
    /\ unlinks = {}
    /\ unlinkErr = {}
    /\ reqs = [s \in Slots |-> IdleReq]
    /\ nreq = 0
    /\ deleted = {}
    /\ known = {}
    /\ detailOk = [d \in PdfIds |-> 0]
    /\ nextPdf = n + 1 /\ nextAnn = n + 1 /\ nextReply = 1 /\ nextFile = n + 1

\* the reply texts: blank strings and one letter with any padding, up to MaxTextLen
Texts == {t \in UNION {[1..n -> Chars] : n \in 0..MaxTextLen} :
            Cardinality({i \in DOMAIN t : t[i] = "a"}) <= 1}

\* ------------------------------------------------------------- claims
Done(s) == reqs[s].pc = "done"

\* C1: GET /:id and GET /:id/file answer 404 for a missing document, 403 exactly
\* when the document exists and is neither public nor owned by the (authenticated)
\* viewer, and serve it only to a viewer for whom it was public or who owns it; an
\* anonymous viewer is served only a public document.
C1_AccessDecision ==
  \A s \in Slots :
    LET r == reqs[s] IN
    (Done(s) /\ r.kind \in {"detail", "file"}) =>
      /\ (r.pdf = <<>>) => r.status = 404
      /\ (r.pdf # <<>>) =>
           LET granted == r.pdf[1].isPublic \/ (r.user \in Users /\ r.user = r.pdf[1].user)
           IN  /\ (r.status = 403) <=> ~granted
               /\ (r.status = 200) => granted
               /\ (r.status = 200 /\ r.user = Anon) => r.pdf[1].isPublic
               /\ (granted /\ r.kind = "detail") => r.status \in {200, 500}
               /\ (granted /\ r.kind = "file") => r.status \in {200, 404}
      \* the 403 and the 404 of a missing document are answered from the store as it is
      /\ (r.status = 403) => (r.id \in DOMAIN pdfs /\ ~pdfs[r.id].isPublic
                                /\ pdfs[r.id].user # r.user)
      /\ (r.kind = "file" /\ r.status = 404) =>
            (r.id \notin DOMAIN pdfs \/ pdfs[r.id].filePath \notin blobs)

C1_Witness ==
  \E s \in Slots :
    /\ Done(s) /\ reqs[s].kind = "file" /\ reqs[s].status = 403
    /\ reqs[s].user \in Users

C3_NoAnnotationAfterDelete ==
  \A d \in deleted : AnnsOf(d) = {}

\* C4: when an upload's error is answered, no file written by that request is left
\* in the upload directory, unless its unlink failed.
C4_NoBlobWhenErrorSurfaces ==
  \A s \in Slots :
    LET r == reqs[s] IN
    (Done(s) /\ r.kind = "upload" /\ r.status >= 400) =>
      (r.file = 0 \/ r.file \notin blobs \/ r.file \in unlinkErr)

\* C5: with no detail read of a document in flight, its accessCount equals the number
\* of detail reads of it that were answered 200.
C5_NoLostUpdate ==
  \A d \in DOMAIN pdfs :
    (\A s \in Slots : ~(reqs[s].kind = "detail" /\ reqs[s].id = d /\ reqs[s].pc = "save"))
      => pdfs[d].accessCount = detailOk[d]

\* C6: a detail read or a file read answered 200 leaves the document's accessCount
\* one above the value the handler read, and lastAccessed set.
C6_ReadTouchesAccess ==
  \A s \in Slots :
    LET r == reqs[s] IN
    (Done(s) /\ r.kind \in {"detail", "file"} /\ r.status = 200) =>
      LET read == IF r.kind = "detail" THEN r.pdf[1].accessCount - 1
                                       ELSE r.pdf[1].accessCount
      IN  /\ r.id \in DOMAIN pdfs
          /\ pdfs[r.id].accessCount = read + 1

\* C7: a PUT or DELETE of a document by an authenticated actor who is neither its
\* owner nor an admin is answered 403 at once and changes neither the records, the
\* annotations nor the files; and every step of a PUT or DELETE past its check is
\* taken for the owner or an admin.
C7_Unauthorized(s) ==
  /\ reqs[s].pc = "idle"
  /\ reqs'[s].kind \in {"putPdf", "deletePdf"}
  /\ reqs'[s].id \in DOMAIN pdfs
  /\ pdfs[reqs'[s].id].user # reqs'[s].user
  /\ reqs'[s].user # "adm"

C7_OwnerOrAdminOnly ==
  /\ [][\A s \in Slots : C7_Unauthorized(s) =>
          /\ reqs'[s].pc = "done" /\ reqs'[s].status = 403
          /\ pdfs' = pdfs /\ anns' = anns /\ blobs' = blobs /\ unlinks' = unlinks]_vars
  /\ [][\A s \in Slots :
          (reqs[s].kind \in {"putPdf", "deletePdf"} /\ reqs[s].pc \notin {"idle", "done"}
             /\ reqs'[s] # reqs[s] /\ reqs'[s].pc # "idle")
          => (reqs[s].pdf[1].user = reqs[s].user \/ reqs[s].user = "adm")]_vars

C7_Witness ==
  \E s \in Slots :
    /\ Done(s) /\ reqs[s].kind = "deletePdf" /\ reqs[s].status = 403
    /\ reqs[s].id \in DOMAIN pdfs /\ AnnsOf(reqs[s].id) # {}

\* C8: an annotation create answered 201 has stored an annotation whose document
\* exists at that moment.
C8_DocumentExistsAtCreation ==
  \A s \in Slots :
    LET r == reqs[s] IN
    (Done(s) /\ r.kind = "createAnn" /\ r.status = 201) => r.id \in DOMAIN pdfs

\* C9: a PUT of an annotation by anyone but its author (an admin included), and a
\* DELETE by anyone but its author or an admin, is answered 403 at once and leaves
\* every annotation, replies included, as it was; and every step of a PUT or DELETE
\* past its check is taken for the author (PUT) or the author or an admin (DELETE).
C9_Refused(s) ==
  /\ reqs[s].pc = "idle"
  /\ reqs'[s].id \in DOMAIN anns
  /\ anns[reqs'[s].id].user # reqs'[s].user
  /\ \/ reqs'[s].kind = "putAnn"
     \/ reqs'[s].kind = "deleteAnn" /\ reqs'[s].user # "adm"

C9_AuthorOrAdminOnly ==
  /\ [][\A s \in Slots : C9_Refused(s) =>
          /\ reqs'[s].pc = "done" /\ reqs'[s].status = 403
          /\ anns' = anns]_vars
  /\ [][\A s \in Slots :
          (reqs[s].pc \notin {"idle", "done"} /\ reqs'[s] # reqs[s])
          => /\ reqs[s].kind = "putAnn" => reqs[s].ann[1].user = reqs[s].user
             /\ reqs[s].kind = "deleteAnn" =>
                   (reqs[s].ann[1].user = reqs[s].user \/ reqs[s].user = "adm")]_vars

C9_Witness ==
  \E s \in Slots :
    /\ Done(s) /\ reqs[s].kind = "putAnn" /\ reqs[s].status = 403
    /\ reqs[s].user = "adm"
    /\ reqs[s].id \in DOMAIN anns /\ Len(anns[reqs[s].id].replies) > 0

\* C10: a reply is appended only by an add-reply request that is then answered 201,
\* whose text is not blank, whose annotation was read as not private and whose document was read as
\* public or owned by the actor, and it is the last of the list, with the text cut of
\* its leading and trailing blanks; a blank or empty text is answered 400; with a
\* text, an annotation read as private or a document read as unviewable is answered
\* 403; a 400 or a 403 leaves every reply list as it was.
C10_Blank(text) == \A i \in DOMAIN text : text[i] = " "

C10_IsTrimOf(t, raw) ==
  \E i, j \in DOMAIN raw :
    /\ i <= j /\ t = SubSeq(raw, i, j)
    /\ raw[i] # " " /\ raw[j] # " "
    /\ \A k \in DOMAIN raw : (k < i \/ k > j) => raw[k] = " "

C10_Answer(r) ==
  /\ (r.status = 400) <=> C10_Blank(r.body.text)
  /\ (r.status = 403) <=>
        (~C10_Blank(r.body.text) /\ r.ann # <<>> /\ r.pdf # <<>>
           /\ (r.ann[1].isPrivate \/ ~(r.pdf[1].isPublic \/ r.pdf[1].user = r.user)))
  /\ (r.status = 201) =>
        /\ ~C10_Blank(r.body.text)
        /\ ~r.ann[1].isPrivate
        /\ (r.pdf[1].isPublic \/ r.pdf[1].user = r.user)
        /\ r.file # 0

C10_ReplyPolicy ==
  /\ [](\A s \in Slots : (Done(s) /\ reqs[s].kind = "addReply") => C10_Answer(reqs[s]))
  /\ [][\A s \in Slots :
          (reqs'[s].kind = "addReply" /\ reqs'[s].pc = "done" /\ reqs[s].pc # "done"
             /\ reqs'[s].status \in {400, 403})
          => anns' = anns]_vars
  /\ [][\A a \in DOMAIN anns \cap DOMAIN anns' :
          (anns'[a].replies # anns[a].replies) =>
             /\ Len(anns'[a].replies) = Len(anns[a].replies) + 1
             /\ SubSeq(anns'[a].replies, 1, Len(anns[a].replies)) = anns[a].replies
             /\ \E s \in Slots :
                  LET last == anns'[a].replies[Len(anns'[a].replies)] IN
                  /\ reqs[s].kind = "addReply" /\ reqs[s].pc = "save"
                  /\ reqs'[s].pc = "reread" /\ reqs[s].id = a
                  /\ last.id = reqs'[s].file /\ last.user = reqs[s].user
                  /\ C10_IsTrimOf(last.text, reqs[s].body.text)]_vars
  /\ [][\A s \in Slots :
          (reqs[s].kind = "addReply" /\ reqs[s].pc = "reread" /\ reqs'[s] # reqs[s])
          => (reqs'[s].pc = "done" /\ reqs'[s].status = 201)]_vars

C10_Witness ==
  \E s \in Slots :
    /\ Done(s) /\ reqs[s].kind = "addReply" /\ reqs[s].status = 201
    /\ reqs[s].id \in DOMAIN anns
    /\ Len(anns[reqs[s].id].replies) = 2
    /\ anns[reqs[s].id].replies[2].text # reqs[s].body.text
    /\ reqs[s].user # anns[reqs[s].id].user

\* C11: a DELETE of reply R of annotation A is answered 404 when A or R was not found,
\* 403 exactly when both were found and the actor is neither R's author, A's author
\* nor an admin, and otherwise 200 (500 only when A was deleted meanwhile); R's
\* author is answered 200 even when not A's author; a 403 or 404 leaves every reply
\* list as it was; and a reply list loses entries only in the step that answers a
\* reply DELETE with 200, which removes exactly R and keeps the others in their order.
C11_Allowed(r) ==
  LET reply == ReplyById(r.ann[1], r.file)[1]
  IN  reply.user = r.user \/ r.ann[1].user = r.user \/ r.user = "adm"

C11_Answer(r) ==
  /\ (r.ann = <<>>) => r.status = 404
  /\ (r.ann # <<>> /\ ~(\E i \in DOMAIN r.ann[1].replies : r.ann[1].replies[i].id = r.file))
        => r.status = 404
  /\ (r.ann # <<>> /\ \E i \in DOMAIN r.ann[1].replies : r.ann[1].replies[i].id = r.file) =>
        /\ (r.status = 403) <=> ~C11_Allowed(r)
        /\ C11_Allowed(r) => r.status \in {200, 500}
        /\ (r.status = 500) => r.id \notin DOMAIN anns
        /\ (r.status = 200) =>
              /\ r.id \in DOMAIN anns
              /\ \A i \in DOMAIN anns[r.id].replies : anns[r.id].replies[i].id # r.file

C11_Without(replies, replyId) ==
  LET keep == {i \in DOMAIN replies : replies[i].id # replyId}
      nth[k \in 0..Len(replies)] ==
        \* the k-th kept index, in increasing order
        IF k = 0 THEN 0
        ELSE CHOOSE i \in keep :
               Cardinality({j \in keep : j < i}) = k - 1
  IN  [k \in 1..Cardinality(keep) |-> replies[nth[k]]]

C11_DeleteReplyPolicy ==
  /\ [](\A s \in Slots : (Done(s) /\ reqs[s].kind = "deleteReply") => C11_Answer(reqs[s]))
  /\ [][\A s \in Slots :
          (reqs'[s].kind = "deleteReply" /\ reqs'[s].pc = "done" /\ reqs[s].pc # "done"
             /\ reqs'[s].status \in {403, 404})
          => anns' = anns]_vars
  /\ [][\A a \in DOMAIN anns \cap DOMAIN anns' :
          (\E i \in DOMAIN anns[a].replies :
              \A j \in DOMAIN anns'[a].replies : anns'[a].replies[j] # anns[a].replies[i])
          => \E s \in Slots :
               /\ reqs'[s].kind = "deleteReply" /\ reqs'[s].pc = "done"
               /\ reqs[s].pc = "save"
               /\ reqs'[s].status = 200 /\ reqs'[s].id = a
               /\ anns'[a].replies = C11_Without(anns[a].replies, reqs'[s].file)]_vars

C11_Witness ==
  \E s \in Slots :
    LET r == reqs[s] IN
    /\ Done(s) /\ r.kind = "deleteReply" /\ r.status = 200
    /\ r.user # r.ann[1].user /\ r.user # "adm"
    /\ Len(r.ann[1].replies) >= 3
    /\ r.ann[1].replies[2].id = r.file
    /\ Len(anns[r.id].replies) >= 2
    /\ anns[r.id].replies[1] = r.ann[1].replies[1]
    /\ anns[r.id].replies[2] = r.ann[1].replies[3]

\* C12: in a DELETE of a document, a failing unlink of the file is only logged: the
\* failure itself changes neither the records, the annotations nor any handler; the
\* step after deleteMany leaves no annotation of the document; and every DELETE that
\* passed its checks is answered 200 with the record removed, whether or not the
\* unlink of its file failed.
C12_BlobFailureNotFatal ==
  /\ [](\A s \in Slots :
          LET r == reqs[s] IN
          (Done(s) /\ r.kind = "deletePdf" /\ r.status \notin {403, 404}) =>
             /\ r.status = 200
             /\ r.id \notin DOMAIN pdfs
             /\ r.id \in deleted)
  /\ [][(unlinkErr' # unlinkErr) =>
          (pdfs' = pdfs /\ anns' = anns /\ reqs' = reqs /\ deleted' = deleted)]_vars
  /\ [][\A s \in Slots :
          (reqs[s].kind = "deletePdf" /\ reqs[s].pc = "annotations" /\ reqs'[s].pc = "record")
          => \A a \in DOMAIN anns' : anns'[a].pdf # reqs[s].id]_vars

C12_Witness ==
  \E s \in Slots :
    LET r == reqs[s] IN
    /\ Done(s) /\ r.kind = "deletePdf" /\ r.status = 200
    /\ r.pdf[1].filePath \in unlinkErr
    /\ r.pdf[1].filePath \in blobs
    /\ r.id \notin DOMAIN pdfs

\* C13: every listing answered 200 (owned documents, public documents, own
\* annotations) with counted total T and limit L >= 1 reports pages = ceil(T/L), the
\* least p with p * L >= T (0 for T = 0), returns at most L items, and reports as
\* count the number of items it returns.
C13_ListKinds == {"listPdfs", "listPublic", "listMy"}

C13_Pagination ==
  \A s \in Slots :
    LET r == reqs[s]
        l == r.list
    IN  (Done(s) /\ r.kind \in C13_ListKinds /\ r.status = 200) =>
          /\ l.limit >= 1
          /\ l.pages >= 0
          /\ l.pages * l.limit >= l.total
          /\ (l.pages > 0) => (l.pages - 1) * l.limit < l.total
          /\ (l.total = 0) => l.pages = 0
          /\ Len(l.items) <= l.limit
          /\ l.count = Len(l.items)

C13_Witness ==
  \E s \in Slots :
    LET r == reqs[s]
        l == r.list
    IN  /\ Done(s) /\ r.kind = "listPdfs" /\ r.status = 200
        /\ l.total = 21 /\ l.limit = 10 /\ l.pages = 3
        /\ l.page = 3 /\ l.count = 1 /\ l.items = <<1>>

\* C14: no step appends a reply to an annotation that is private in the store at
\* that step, and no add-reply answered 201 carries an annotation that is private
\* when the viewer is neither the owner of its document nor its author.
C14_NoReplyOnPrivate ==
  /\ [][\A a \in DOMAIN anns \cap DOMAIN anns' :
          (Len(anns'[a].replies) > Len(anns[a].replies)) => ~anns[a].isPrivate]_vars
  /\ [](\A s \in Slots :
          LET r == reqs[s] IN
          (Done(s) /\ r.kind = "addReply" /\ r.status = 201) =>
             \A x \in r.seen :
                x.isPrivate => (r.user = r.pdf[1].user \/ r.user = r.ann[1].user))

\* C15: a response that delivers the bytes of a file (the file endpoint or the static
\* mount, answered 200) delivers the file of a document that is not public only to
\* the owner of that document.
C15_BlobOnlyToOwner ==
  \A s \in Slots :
    LET r == reqs[s] IN
    (Done(s) /\ r.kind \in {"file", "static"} /\ r.status = 200) =>
      \A d \in DOMAIN pdfs :
        (pdfs[d].filePath = r.file /\ ~pdfs[d].isPublic) => r.user = pdfs[d].user

\* C16: whenever no request is in flight, every document record in the store has its
\* file in the upload directory.
C16_RecordHasBlob ==
  (\A s \in Slots : reqs[s].pc = "idle") =>
     \A d \in DOMAIN pdfs : pdfs[d].filePath \in blobs

\* a multipart or JSON flag: absent, 'true' / true, 'false' / false
Flags == {"", "true", "false"}
Mimes == {"", "application/pdf", "image/png"}

\* the accounts that upload in Spec (one owner; u2, adm and anon are the others)
Uploaders == {"u1"}

FsStep == \E f \in 1..MaxReqs : FsUnlinkDone(f) \/ FsUnlinkFail(f)

\* the document routes and the annotation create, with well-formed PDF uploads
Next ==
  \/ FsStep
  \/ Crash
  \/ \E s \in Slots :
       \/ \E u \in Uploaders, isPublic \in Flags :
             UploadStart(s, u, "application/pdf", isPublic, TRUE)
       \/ UploadCreate(s)
       \/ \E u \in Users \cup {Anon}, id \in PdfIds : GetPdfLoad(s, u, id) \/ GetFile(s, u, id)
       \/ GetPdfSave(s)
       \/ \E u \in Users, id \in PdfIds, isPublic \in Flags : PutPdfLoad(s, u, id, isPublic)
       \/ PutPdfUpdate(s)
       \/ \E u \in Users, id \in PdfIds : DeletePdfLoad(s, u, id)
       \/ DeletePdfAnnotations(s)
       \/ DeletePdfRecord(s)
       \/ \E u \in Users, id \in PdfIds, isPrivate \in Flags, valid \in BOOLEAN :
             CreateAnnotationLoad(s, u, id, isPrivate, valid)
       \/ CreateAnnotationInsert(s)
       \/ Close(s)

Spec == Init /\ [][Next]_vars

\* the upload route alone, with every kind of upload
NextUpload ==
  \/ FsStep
  \/ \E s \in Slots :
       \/ \E u \in Users, mime \in Mimes, isPublic \in Flags, valid \in BOOLEAN :
             UploadStart(s, u, mime, isPublic, valid)
       \/ UploadCreate(s)
       \/ UploadNext(s)
       \/ Close(s)

SpecUpload == Init /\ [][NextUpload]_vars

\* isPrivate of a new annotation: absent or true
PrivFlags == {"", "true"}

\* the annotation listing and the document detail, over one uploaded PDF
NextList ==
  \E s \in Slots :
    \/ \E u \in Users, id \in PdfIds, isPrivate \in PrivFlags :
          CreateAnnotationLoad(s, u, id, isPrivate, TRUE)
    \/ CreateAnnotationInsert(s)
    \/ \E u \in Users, id \in PdfIds : ListAnnotationsLoad(s, u, id)
    \/ ListAnnotationsFind(s)
    \/ \E u \in Users \cup {Anon}, id \in PdfIds : GetPdfLoad(s, u, id)
    \/ GetPdfSave(s)
    \/ Close(s)

SpecList == InitAnn /\ [][NextList]_vars

\* the routes that change an annotation, over one annotated PDF
NextThread ==
  \E s \in Slots :
    \/ \E u \in Users, id \in AnnIds, text \in Texts :
          nreq < MaxReplyReqs /\ AddReplyLoad(s, u, id, text)
    \/ AddReplyPdf(s)
    \/ AddReplySave(s)
    \/ AddReplyReread(s)
    \/ \E u \in Users, id \in AnnIds, isPrivate \in Flags :
          nreq < MaxReplyReqs /\ PutAnnotationLoad(s, u, id, isPrivate)
    \/ PutAnnotationUpdate(s)
    \/ \E u \in Users, id \in AnnIds :
          nreq < MaxReplyReqs /\ DeleteAnnotationLoad(s, u, id)
    \/ DeleteAnnotationRecord(s)
    \/ Close(s)

SpecThread == InitReply /\ [][NextThread]_vars

\* the reply ids a request names: those of the stored replies and the next one
ReplyIds == 1..(InitReplyCount + 1)

\* the reply routes and the annotation delete, over one annotation with replies
NextReplies ==
  \E s \in Slots :
    \/ \E u \in Users, id \in AnnIds, replyId \in ReplyIds :
          nreq < MaxReplyReqs /\ DeleteReplyLoad(s, u, id, replyId)
    \/ DeleteReplySave(s)
    \/ \E u \in Users, id \in AnnIds :
          nreq < MaxReplyReqs /\ AddReplyLoad(s, u, id, <<"a">>)
    \/ AddReplyPdf(s)
    \/ AddReplySave(s)
    \/ AddReplyReread(s)
    \/ \E u \in Users, id \in AnnIds :
          nreq < MaxReplyReqs /\ DeleteAnnotationLoad(s, u, id)
    \/ DeleteAnnotationRecord(s)
    \/ Close(s)

SpecReplies == InitReplies /\ [][NextReplies]_vars

\* the page and limit query values: absent, zero, numbers, a number with a tail
PageParams == {<<>>, <<"2">>, <<"3">>}
LimitParams == {<<>>, <<"0">>, <<"1">>, <<"1", "0">>, <<"7", "x">>}

\* no listing is in flight (listings only read, so two of them do not interact)
NoListing == \A t \in Slots : reqs[t].kind \notin {"listPdfs", "listPublic", "listMy"}

\* the three paginated listings, with a document DELETE running beside them
NextPage ==
  \E s \in Slots :
    \/ \E u \in {"u1", "u2"}, page \in PageParams, limit \in LimitParams :
          NoListing /\ ListPdfsCount(s, u, page, limit)
    \/ \E u \in {Anon}, page \in PageParams, limit \in LimitParams :
          NoListing /\ ListPublicCount(s, u, page, limit)
    \/ \E u \in {"u1"}, page \in PageParams, limit \in LimitParams :
          NoListing /\ ListMyCount(s, u, page, limit)
    \/ ListPdfsFind(s)
    \/ ListPublicFind(s)
    \/ ListMyFind(s)
    \/ \E u \in {"u1"}, id \in PdfIds : DeletePdfLoad(s, u, id)
    \/ DeletePdfAnnotations(s)
    \/ DeletePdfRecord(s)
    \/ Close(s)

SpecPage == InitPage /\ [][NextPage]_vars

\* the ways to a document's file, over one uploaded PDF whose owner changes isPublic;
\* a viewer asks the static mount for a path that a detail response has shown to it
NextBlob ==
  \E s \in Slots :
    \/ \E u \in Users \cup {Anon}, id \in PdfIds : GetPdfLoad(s, u, id) \/ GetFile(s, u, id)
    \/ GetPdfSave(s)
    \/ \E u \in Users, id \in PdfIds, isPublic \in Flags : PutPdfLoad(s, u, id, isPublic)
    \/ PutPdfUpdate(s)
    \/ \E u \in Users \cup {Anon}, f \in 1..MaxPdfs, mounted \in BOOLEAN :
          <<u, f>> \in known /\ StaticGet(s, u, f, mounted)
    \/ Close(s)

SpecBlob == InitAnn /\ [][NextBlob]_vars
====
